---- MODULE Spec2Model ----
(***************************************************************************)
(* Verification model of src/main.py: the signal scanner (check_signals,   *)
(* process_signal), its triggers (startup_event, the APScheduler interval  *)
(* job, /api/force_check), the settings endpoint and the Telegram fan-out  *)
(* (send_telegram_message).                                                *)
(*                                                                         *)
(* All coroutines run on one asyncio event loop: the code between two      *)
(* awaits runs atomically, so every action below is one such segment and   *)
(* the pc of a pass names the await it is suspended at.                    *)
(***************************************************************************)
EXTENDS Integers, Sequences, FiniteSets, TLC

\* ---------------------------------------------------------------- bounds
\* Longest candle series a fetch returns, and largest indicator period configured.
MaxLen == 4
MaxPeriod == 4
\* Number of records made (process_signal, fake_signal) in one run of the server.
MaxRecords == 3
\* Number of check_signals coroutines made by asyncio.create_task (startup,
\* force_check) that may be suspended at the same time, beside the scheduler's.
MaxTasks == 1
\* Largest value the clock (datetime.now(), to the second) takes.
MaxTime == 1

\* ------------------------------------------------------ program constants
\* len(DEFAULT_CONFIG["active_symbols"])
NumSymbols == 2
\* DEFAULT_CONFIG["max_open_trades"]
DefaultMaxOpenTrades == 2
\* deque(..., maxlen=50)
HistoryMaxLen == 50
\* for i in range(1, 5): TELEGRAM_TOKEN_1 .. TELEGRAM_TOKEN_4
MaxAccounts == 4

Min(a, b) == IF a < b THEN a ELSE b

VARIABLES
    started,        \* startup_event has run
    bot_status,     \* [last_check, last_error]
    bot_config,     \* [max_open_trades, telegram_channels]
    telegram_accounts,  \* ids of the accounts the environment gives a token and a chat id
    open_trades,    \* the global counter
    trade_history,  \* deque(maxlen=50), newest first
    pass,           \* the check_signals coroutines, by slot
    dispatch,       \* the send_telegram_message call of the /api/test_telegram handler
    event,          \* history: the last step was a trigger (which), a caught exception, or other
    track,          \* whether the passes keep their history fields (cap0, hit)
    history_file,   \* trade_history.json, in the specifications that follow its content
    calc            \* one run of a computation: its inputs and what it gave

vars == <<started, bot_status, bot_config, telegram_accounts, open_trades,
          trade_history, pass, dispatch, event, track, history_file, calc>>

\* Slot 0 is the instance of the interval job the scheduler runs (APScheduler's
\* default max_instances = 1 allows one); the others hold the coroutines made
\* by asyncio.create_task.
SchedulerJob == 0
TaskIds == 1..MaxTasks
PassIds == {SchedulerJob} \cup TaskIds
\* Exceptions the body of the per-symbol try block can raise: a fetch or an
\* indicator computation that fails, and save_json failing inside process_signal.
DataError == "DataError"
OSError == "OSError"
NoError == "None"

SignalCheckError(e) == "Signal Check Error: " \o e

\* ---------------------------------------------------- send_telegram_message
AccountIds == 1..MaxAccounts
\* DEFAULT_CONFIG["telegram_channels"] (line 56): one channel per account, the
\* first one active. A channel is kept as its active flag, by id; an id with no
\* channel entry counts as not active.
DefaultChannels(accounts) ==
    [c \in AccountIds |-> c \in accounts /\ \A d \in accounts : c <= d]

\* Line 528: the ids of the channel entries marked active.
ActiveChannels == {c \in AccountIds : bot_config.telegram_channels[c]}

\* One send per account, whatever the channels' active flags.
NewTasks_AllAccounts(active_channels_config) ==
    [c \in telegram_accounts |-> "pending"]

\* Lines 533-538: one send per active channel whose id is the id of an account.
NewTasks(active_channels_config) ==
    [c \in active_channels_config \cap telegram_accounts |-> "pending"]

\* A wait that never resumes.
GatherDone_Never(tasks) == FALSE

\* A wait that resumes as soon as one task has settled.
GatherDone_FirstCompleted(tasks) ==
    DOMAIN tasks = {} \/ \E c \in DOMAIN tasks : tasks[c] # "pending"

\* Line 540: await asyncio.gather(*tasks, return_exceptions=True) resumes when
\* every task has settled.
GatherDone(tasks) == \A c \in DOMAIN tasks : tasks[c] # "pending"

\* Line 525: bot_status["last_error"] after the send to account c failed.
FailedToSend(c) == "Failed to send to " \o ToString(c)

\* A send whose failure cancels the sends still pending.
SendSettles_FailFast(tasks, c, sent) ==
    [d \in DOMAIN tasks |->
        IF d = c THEN (IF sent THEN "ok" ELSE "failed")
        ELSE IF ~sent /\ tasks[d] = "pending" THEN "cancelled" ELSE tasks[d]]

\* send_single_telegram_message for account c returns: sent, or the exception
\* was caught and recorded (lines 523-525).
SendSettles(tasks, c, sent) ==
    [tasks EXCEPT ![c] = IF sent THEN "ok" ELSE "failed"]

\* No send_telegram_message call in the handler.
NoDispatch == [pc |-> "idle", active_channels_config |-> {}, tasks |-> <<>>]

\* trade_history.json does not exist (load_json then gives its default, line 62).
NoFile == [exists |-> FALSE, data |-> <<>>]

\* No computation is followed.
NoCalc == [op |-> "none"]

\* A slot holding no coroutine (the coordinator's Idle).
\* cap0 and hit are history, kept in the specifications whose properties read
\* them (track): max_open_trades when the pass started, and whether a signal
\* processed by this pass has brought open_trades to the cap.
IdlePass == [pc |-> "idle", i |-> 0, tasks |-> <<>>, cap0 |-> 0, hit |-> FALSE]

\* bot_status["last_check"]: "Never", or strftime("%Y-%m-%d %H:%M:%S") of a clock reading.
Never == <<>>
strftime(t) == <<t>>
\* Readings datetime.now() can give: the clock never runs backwards.
ClockReadings ==
    {t \in 0..MaxTime : bot_status.last_check = Never \/ strftime(t)[1] >= bot_status.last_check[1]}

\* A coroutine that has run line 613 and is suspended at one of its awaits.
RunningPcs == {"htf", "entry", "notify"}
Running(p) == pass[p].pc \in RunningPcs

FreeTasks == {p \in TaskIds : ~Running(p)}
\* The slot a coroutine made by create_task takes.
NewTask == CHOOSE p \in FreeTasks : \A q \in FreeTasks : p <= q

\* A deque that takes its new items at the right end.
AppendLeft_Right(h, e) ==
    SubSeq(h \o <<e>>, Len(h) + 2 - Min(Len(h) + 1, HistoryMaxLen), Len(h) + 1)

\* deque.appendleft on a deque with maxlen: the oldest entry falls off the right.
AppendLeft(h, e) == SubSeq(<<e>> \o h, 1, Min(Len(h) + 1, HistoryMaxLen))

Init ==
    /\ started = FALSE
    /\ bot_status = [last_check |-> Never, last_error |-> NoError]
    /\ telegram_accounts = AccountIds
    /\ bot_config = [max_open_trades |-> DefaultMaxOpenTrades,
                     telegram_channels |-> DefaultChannels(telegram_accounts)]
    /\ dispatch = NoDispatch
    /\ open_trades = 0
    /\ trade_history = <<>>
    /\ pass = [p \in PassIds |-> IdlePass]
    /\ event = "other"
    /\ track = FALSE
    /\ history_file = NoFile
    /\ calc = NoCalc

\* A step that is neither the start of a pass nor a caught exception.
Step == event' = "other" /\ UNCHANGED <<track, history_file, calc>>

\* ------------------------------------------------------------ check_signals
Cap == bot_config.max_open_trades

\* A loop that takes every other symbol of the list.
NextSymbol_Skip(r) ==
    IF r.i < NumSymbols THEN [r EXCEPT !.pc = "htf", !.i = r.i + 2] ELSE IdlePass

\* The for loop takes its next symbol: binance.options is set and the gather of
\* the higher-timeframe fetches is awaited (line 619); after the last symbol the
\* coroutine returns.
NextSymbol(r) ==
    IF r.i < NumSymbols THEN [r EXCEPT !.pc = "htf", !.i = r.i + 1] ELSE IdlePass

\* Lines 636 and 642: break when the cap is reached, else on to the next symbol.
CapCheck(r, ot) == IF ot >= Cap THEN IdlePass ELSE NextSymbol(r)

\* An except clause placed around the loop: the error is recorded and the pass
\* ends.
OnExcept_Abort(p, r, e) ==
    /\ bot_status' = [bot_status EXCEPT !.last_error = SignalCheckError(e)]
    /\ pass' = [pass EXCEPT ![p] = IdlePass]
    /\ event' = "except"
    /\ UNCHANGED <<track, history_file, calc>>

\* The except clause of the per-symbol try (lines 644-647): the error is
\* recorded and the loop goes on.
OnExcept(p, r, e) ==
    /\ bot_status' = [bot_status EXCEPT !.last_error = SignalCheckError(e)]
    /\ pass' = [pass EXCEPT ![p] = NextSymbol(r)]
    /\ event' = "except"
    /\ UNCHANGED <<track, history_file, calc>>

\* A pass that stops at its start only when open_trades exceeds the cap.
Start_StrictCap(p, t, trigger) ==
    /\ bot_status' = [bot_status EXCEPT !.last_check = strftime(t)]
    /\ pass' = IF open_trades > Cap THEN pass
               ELSE [pass EXCEPT ![p] = NextSymbol([IdlePass EXCEPT !.cap0 = IF track THEN Cap ELSE 0])]
    /\ event' = trigger
    /\ UNCHANGED <<track, history_file, calc>>
    /\ UNCHANGED <<bot_config, telegram_accounts, open_trades, trade_history, dispatch>>

\* Lines 613-616, the first run of a new check_signals coroutine in slot p.
\* The event loop runs it right after the handler that made it, so the two are
\* one step; t is what datetime.now() reads.
Start(p, t, trigger) ==
    /\ bot_status' = [bot_status EXCEPT !.last_check = strftime(t)]
    /\ pass' = IF open_trades >= Cap THEN pass
               ELSE [pass EXCEPT ![p] = NextSymbol([IdlePass EXCEPT !.cap0 = IF track THEN Cap ELSE 0])]
    /\ event' = trigger
    /\ UNCHANGED <<track, history_file, calc>>
    /\ UNCHANGED <<bot_config, telegram_accounts, open_trades, trade_history, dispatch>>

\* startup_event (lines 662-666): the scheduler is started and the first pass
\* is made with asyncio.create_task.
startup_event ==
    /\ ~started
    /\ started' = TRUE
    /\ \E t \in ClockReadings : Start(NewTask, t, "startup")

\* The interval job fires (line 663). The scheduler skips the run while the
\* instance it submitted before is still running; it knows nothing of the
\* coroutines made by create_task.
Timer ==
    /\ started
    /\ ~Running(SchedulerJob)
    /\ \E t \in ClockReadings : Start(SchedulerJob, t, "timer")
    /\ UNCHANGED started

\* POST /api/force_check: asyncio.create_task(check_signals()), unconditionally.
force_check ==
    /\ started
    /\ FreeTasks # {}
    /\ \E t \in ClockReadings : Start(NewTask, t, "manual")
    /\ UNCHANGED started

\* The values of max_open_trades a settings update sets here: the cap is
\* lowered to 1 or put back to its default.
CapChoices == {1, DefaultMaxOpenTrades}

\* POST /api/settings: bot_config.update(data), for a body that sets some keys.
update_settings(data) ==
    /\ started
    /\ bot_config' = [k \in DOMAIN bot_config |->
                        IF k \in DOMAIN data THEN data[k] ELSE bot_config[k]]
    /\ Step
    /\ UNCHANGED <<started, bot_status, telegram_accounts, open_trades,
                   trade_history, pass, dispatch>>

\* Line 619 resumes: the gather raised, or the alignment is counted and the
\* entry-timeframe fetch is awaited (line 628).
HtfReturn(p) ==
    /\ pass[p].pc = "htf"
    /\ \/ /\ OnExcept(p, pass[p], DataError)
       \/ /\ pass' = [pass EXCEPT ![p].pc = "entry"]
          /\ Step
          /\ UNCHANGED bot_status
    /\ UNCHANGED <<started, bot_config, telegram_accounts, open_trades,
                   trade_history, dispatch>>

\* process_signal up to its await (lines 586-608), called from line 635 or 641.
\* flushed: save_json returned. send_telegram_message returns at once when it
\* has no task to wait for.
process_signal(p, signal_type, flushed) ==
    LET ot == open_trades + 1
        r  == [pass[p] EXCEPT !.hit = (track /\ ot >= Cap)]
        tasks == NewTasks(ActiveChannels)
    IN  /\ open_trades' = ot
        /\ trade_history' = AppendLeft(trade_history,
                                [asset |-> pass[p].i])
        /\ IF ~flushed
           THEN OnExcept(p, r, OSError)
           ELSE /\ pass' = [pass EXCEPT ![p] =
                              IF tasks # <<>>
                              THEN [r EXCEPT !.pc = "notify", !.tasks = tasks]
                              ELSE CapCheck(r, ot)]
                /\ Step
                /\ UNCHANGED bot_status

\* Line 628 resumes: the fetch or the computation raised, the frame is empty,
\* no rule fires, or a Long or Short signal is processed.
EntryReturn(p) ==
    /\ pass[p].pc = "entry"
    /\ \/ /\ OnExcept(p, pass[p], DataError)
          /\ UNCHANGED <<open_trades, trade_history>>
       \/ /\ pass' = [pass EXCEPT ![p] = NextSymbol(pass[p])]
          /\ Step
          /\ UNCHANGED <<bot_status, open_trades, trade_history>>
       \/ \E signal_type \in {"Long", "Short"}, flushed \in BOOLEAN :
             process_signal(p, signal_type, flushed)
    /\ UNCHANGED <<started, bot_config, telegram_accounts, dispatch>>

\* A send of the pass's notification settles while the pass waits at line 608.
SendReturns(p, c, sent) ==
    /\ pass[p].pc = "notify"
    /\ c \in DOMAIN pass[p].tasks
    /\ pass[p].tasks[c] = "pending"
    /\ pass' = [pass EXCEPT ![p].tasks = SendSettles(pass[p].tasks, c, sent)]
    /\ bot_status' = IF sent THEN bot_status
                     ELSE [bot_status EXCEPT !.last_error = FailedToSend(c)]
    /\ Step
    /\ UNCHANGED <<started, bot_config, telegram_accounts, open_trades,
                   trade_history, dispatch>>

\* Line 608 resumes: the gather is done; back in check_signals at line 636 / 642.
NotifyReturn(p) ==
    /\ pass[p].pc = "notify"
    /\ GatherDone(pass[p].tasks)
    /\ pass' = [pass EXCEPT ![p] = CapCheck([pass[p] EXCEPT !.tasks = <<>>], open_trades)]
    /\ Step
    /\ UNCHANGED <<started, bot_status, bot_config, telegram_accounts, open_trades,
                   trade_history, dispatch>>

check_signals(p) ==
    \/ HtfReturn(p)
    \/ EntryReturn(p)
    \/ \E c \in AccountIds, sent \in BOOLEAN : SendReturns(p, c, sent)
    \/ NotifyReturn(p)

Next ==
    \/ startup_event
    \/ Timer
    \/ force_check
    \/ \E n \in CapChoices : update_settings([max_open_trades |-> n])
    \/ \E p \in PassIds : check_signals(p)

Spec == Init /\ [][Next]_vars

\* Every suspended pass is eventually resumed.
Fairness == \A p \in PassIds : WF_vars(check_signals(p))

\* The same program while nobody posts new settings: max_open_trades is constant.
NextFixedCap ==
    \/ startup_event
    \/ Timer
    \/ force_check
    \/ \E p \in PassIds : check_signals(p)

SpecFixedCap == Init /\ [][NextFixedCap]_vars

\* The passes the server starts by itself (the startup task and the interval
\* job, which overlap), when every external call a pass awaits (fetch, flush,
\* send) eventually returns or raises: a suspended pass is eventually resumed.
NextLive ==
    \/ startup_event
    \/ Timer
    \/ \E p \in PassIds : check_signals(p)

SpecLive == Init /\ [][NextLive]_vars /\ Fairness

\* The program with the history fields of the passes kept.
InitTracked ==
    /\ started = FALSE
    /\ bot_status = [last_check |-> Never, last_error |-> NoError]
    /\ telegram_accounts = AccountIds
    /\ bot_config = [max_open_trades |-> DefaultMaxOpenTrades,
                     telegram_channels |-> DefaultChannels(telegram_accounts)]
    /\ dispatch = NoDispatch
    /\ open_trades = 0
    /\ trade_history = <<>>
    /\ pass = [p \in PassIds |-> IdlePass]
    /\ event = "other"
    /\ track = TRUE
    /\ history_file = NoFile
    /\ calc = NoCalc

SpecTracked == InitTracked /\ [][Next]_vars

\* ---------------------------------------------------------- /api/test_telegram
scanVars == <<started, telegram_accounts, open_trades, trade_history, pass, track>>

\* POST /api/test_telegram calls send_telegram_message (lines 528-540): with no
\* channel active, or no task made, it returns without waiting.
test_telegram ==
    /\ dispatch.pc = "idle"
    /\ LET tasks == NewTasks(ActiveChannels)
       IN  dispatch' = [pc |-> IF tasks = <<>> THEN "returned" ELSE "gather",
                        active_channels_config |-> ActiveChannels,
                        tasks |-> tasks]
    /\ Step
    /\ UNCHANGED <<scanVars, bot_status, bot_config>>

\* A send of the handler's message settles while the handler waits at line 540.
DispatchSendReturns(c, sent) ==
    /\ dispatch.pc = "gather"
    /\ c \in DOMAIN dispatch.tasks
    /\ dispatch.tasks[c] = "pending"
    /\ dispatch' = [dispatch EXCEPT !.tasks = SendSettles(dispatch.tasks, c, sent)]
    /\ bot_status' = IF sent THEN bot_status
                     ELSE [bot_status EXCEPT !.last_error = FailedToSend(c)]
    /\ Step
    /\ UNCHANGED <<scanVars, bot_config>>

\* Line 540 resumes and send_telegram_message returns (None).
DispatchReturns ==
    /\ dispatch.pc = "gather"
    /\ GatherDone(dispatch.tasks)
    /\ dispatch' = [dispatch EXCEPT !.pc = "returned"]
    /\ Step
    /\ UNCHANGED <<scanVars, bot_status, bot_config>>

\* Line 545: the handler answers {"status": "success"}.
TestTelegramResponds ==
    /\ dispatch.pc = "returned"
    /\ dispatch' = NoDispatch
    /\ Step
    /\ UNCHANGED <<scanVars, bot_status, bot_config>>

\* The server is up, with any set of accounts in the environment and the
\* default channels for them; no scan pass is running.
InitDispatch ==
    /\ started = TRUE
    /\ bot_status = [last_check |-> Never, last_error |-> NoError]
    /\ telegram_accounts \in SUBSET AccountIds
    /\ bot_config = [max_open_trades |-> DefaultMaxOpenTrades,
                     telegram_channels |-> DefaultChannels(telegram_accounts)]
    /\ dispatch = NoDispatch
    /\ open_trades = 0
    /\ trade_history = <<>>
    /\ pass = [p \in PassIds |-> IdlePass]
    /\ event = "other"
    /\ track = FALSE
    /\ history_file = NoFile
    /\ calc = NoCalc

NextDispatch ==
    \/ test_telegram
    \/ \E c \in AccountIds, sent \in BOOLEAN : DispatchSendReturns(c, sent)
    \/ DispatchReturns
    \/ TestTelegramResponds
    \/ \E f \in [AccountIds -> BOOLEAN] : update_settings([telegram_channels |-> f])

SpecDispatch == InitDispatch /\ [][NextDispatch]_vars

\* ------------------------------------------- startup_event (lines 649-666)
\* bot_status["last_error"] = str(e) of the exception load_markets or
\* fetch_time raised (line 658).
ConnectError == "ExchangeNotAvailable"

\* The connection attempt with no except clause: its exception leaves
\* startup_event and bot_status is as it was.
startup_event_connect_Raise(connected) ==
    /\ ~started
    /\ bot_status.binance_connection = "Connecting..."
    /\ bot_status' = IF connected
                     THEN [bot_status EXCEPT !.binance_connection = "Connected"]
                     ELSE bot_status
    /\ event' = IF connected THEN "other" ELSE "connect_failed"
    /\ UNCHANGED <<track, history_file, calc>>
    /\ UNCHANGED <<started, bot_config, telegram_accounts, open_trades,
                   trade_history, pass, dispatch>>

\* Lines 651-659: load_markets and fetch_time are awaited (no request is
\* served and no job runs before startup has completed); either the
\* connection is made or the exception is caught and recorded.
startup_event_connect(connected) ==
    /\ ~started
    /\ bot_status.binance_connection = "Connecting..."
    /\ bot_status' = IF connected
                     THEN [bot_status EXCEPT !.binance_connection = "Connected"]
                     ELSE [bot_status EXCEPT !.binance_connection = "Failed",
                                             !.last_error = ConnectError]
    /\ event' = IF connected THEN "other" ELSE "connect_failed"
    /\ UNCHANGED <<track, history_file, calc>>
    /\ UNCHANGED <<started, bot_config, telegram_accounts, open_trades,
                   trade_history, pass, dispatch>>

\* Lines 662-666, reached when the try statement is left.
startup_event_schedule ==
    /\ bot_status.binance_connection # "Connecting..."
    /\ startup_event

\* The state at import with the connection status kept (line 84).
InitStartup ==
    /\ started = FALSE
    /\ bot_status = [last_check |-> Never, last_error |-> NoError,
                     binance_connection |-> "Connecting..."]
    /\ telegram_accounts = AccountIds
    /\ bot_config = [max_open_trades |-> DefaultMaxOpenTrades,
                     telegram_channels |-> DefaultChannels(telegram_accounts)]
    /\ dispatch = NoDispatch
    /\ open_trades = 0
    /\ trade_history = <<>>
    /\ pass = [p \in PassIds |-> IdlePass]
    /\ event = "other"
    /\ track = FALSE
    /\ history_file = NoFile
    /\ calc = NoCalc

NextStartup ==
    \/ \E connected \in BOOLEAN : startup_event_connect(connected)
    \/ startup_event_schedule
    \/ Timer
    \/ force_check
    \/ \E p \in PassIds : check_signals(p)

SpecStartup == InitStartup /\ [][NextStartup]_vars

\* ------------------------------------- one symbol's evaluation (lines 621-642)
\* DEFAULT_CONFIG (line 50 and 51): the RSI thresholds, and volume_factor 1.5
\* in tenths.
DefaultRsiOversold == 30
DefaultRsiOverbought == 70
VolumeFactorTenths == 15
\* higher_timeframes (line 48) has three entries.
NumHtf == 3

\* The value talib and pandas give where an indicator is not defined; every
\* comparison with it is false.
NaN == -1
Gt(a, b) == a # NaN /\ b # NaN /\ a > b
Lt(a, b) == a # NaN /\ b # NaN /\ a < b

\* calculate_indicators (lines 576-583), row k (from 1) of a series: talib.EMA
\* and rolling(period).mean() are defined from row period on, talib.RSI and
\* talib.ATR from row period + 1 on. A defined value is the one given (v).
EMA(k, period, v) == IF k >= period THEN v ELSE NaN
RSI(k, period, v) == IF k >= period + 1 THEN v ELSE NaN
RollingMean(k, period, v) == IF k >= period THEN v ELSE NaN
ATR(k, period, v) == IF k >= period + 1 THEN v ELSE NaN
calculate_indicators(k, x) ==
    [rsi     |-> RSI(k, x.cfg.rsi_period, IF k = x.n THEN x.last_rsi ELSE x.prev_rsi),
     ema_e   |-> EMA(k, x.cfg.ema_entry_period, x.ema_e),
     vol_avg |-> RollingMean(k, x.cfg.volume_avg_period, x.vol_avg),
     atr     |-> ATR(k, x.cfg.atr_period, x.atr),
     v       |-> x.v,
     c       |-> x.c]

\* Lines 621-626: the count of higher timeframes whose short EMA is above, and
\* below, its long EMA on the last row (an empty or too short series, or equal
\* EMAs, count for neither).
long_align(x) == Cardinality({tf \in 1..NumHtf : x.htf[tf] = "above"})
short_align(x) == Cardinality({tf \in 1..NumHtf : x.htf[tf] = "below"})

\* The condition of line 633-634 and the one of line 639-640.
LongEntry(x, prev, last) ==
    /\ long_align(x) >= 2
    /\ Lt(prev.rsi, x.cfg.rsi_oversold)
    /\ Gt(last.rsi, x.cfg.rsi_oversold)
    /\ last.vol_avg # NaN /\ 10 * last.v > x.cfg.volume_factor * last.vol_avg
    /\ Gt(last.c, last.ema_e)
ShortEntry(x, prev, last) ==
    /\ short_align(x) >= 2
    /\ Gt(prev.rsi, x.cfg.rsi_overbought)
    /\ Lt(last.rsi, x.cfg.rsi_overbought)
    /\ last.vol_avg # NaN /\ 10 * last.v > x.cfg.volume_factor * last.vol_avg
    /\ Lt(last.c, last.ema_e)

\* Both rules applied one after the other, each on its alignment and RSI
\* conditions alone.
Signals_BothRules(x) ==
    [signals |-> (IF long_align(x) >= 1 THEN <<"Long">> ELSE <<>>)
                   \o (IF short_align(x) >= 1 THEN <<"Short">> ELSE <<>>),
     error |-> FALSE]

\* Lines 628-642 for one symbol: the calls of process_signal made, and whether
\* the except clause was entered. An empty entry series skips the symbol (line
\* 629); with a single row iloc[-2] raises IndexError (line 631); Long is
\* tried first and "continue" skips the Short rule.
Signals(x) ==
    IF x.n = 0 THEN [signals |-> <<>>, error |-> FALSE]
    ELSE IF x.n = 1 THEN [signals |-> <<>>, error |-> TRUE]
    ELSE LET last == calculate_indicators(x.n, x)
             prev == calculate_indicators(x.n - 1, x)
         IN  IF LongEntry(x, prev, last) THEN [signals |-> <<"Long">>, error |-> FALSE]
             ELSE IF ShortEntry(x, prev, last) THEN [signals |-> <<"Short">>, error |-> FALSE]
             ELSE [signals |-> <<>>, error |-> FALSE]

\* The configurations evaluated: the default thresholds, and indicator periods
\* up to MaxPeriod.
Configs ==
    [rsi_oversold : {DefaultRsiOversold}, rsi_overbought : {DefaultRsiOverbought},
     volume_factor : {VolumeFactorTenths},
     ema_short_period : {1}, atr_period : {1, MaxPeriod},
     ema_long_period : {2, MaxPeriod},
     ema_entry_period : 1..2, rsi_period : 1..2, volume_avg_period : 1..2]

\* The largest indicator period of a configuration.
LargestPeriod(cfg) ==
    CHOOSE m \in 1..MaxPeriod :
        /\ m \in {cfg.ema_short_period, cfg.ema_long_period, cfg.ema_entry_period,
                  cfg.rsi_period, cfg.atr_period, cfg.volume_avg_period}
        /\ \A q \in {cfg.ema_short_period, cfg.ema_long_period, cfg.ema_entry_period,
                     cfg.rsi_period, cfg.atr_period, cfg.volume_avg_period} : q <= m

\* What one symbol's evaluation reads: the higher timeframes' EMA relation, the
\* length n of the entry series, and the values of its last two rows.
DetectInputs ==
    [cfg : Configs,
     htf : [1..NumHtf -> {"above", "below", "neither"}],
     n : 0..MaxLen,
     prev_rsi : {DefaultRsiOversold - 1, DefaultRsiOverbought + 1},
     last_rsi : {DefaultRsiOversold, DefaultRsiOversold + 1,
                 DefaultRsiOverbought - 1, DefaultRsiOverbought},
     v : {1, 2}, vol_avg : {1},
     c : {1, 2, 3}, ema_e : {2}, atr : {1}]

InitDetect ==
    /\ started = TRUE
    /\ bot_status = [last_check |-> Never, last_error |-> NoError]
    /\ telegram_accounts = AccountIds
    /\ bot_config = [max_open_trades |-> DefaultMaxOpenTrades,
                     telegram_channels |-> DefaultChannels(telegram_accounts)]
    /\ dispatch = NoDispatch
    /\ open_trades = 0
    /\ trade_history = <<>>
    /\ pass = [p \in PassIds |-> IdlePass]
    /\ event = "other"
    /\ track = FALSE
    /\ history_file = NoFile
    /\ calc \in [op : {"detect"}, x : DetectInputs, done : {FALSE}, out : {<<>>}]

\* The evaluation of the symbol is made.
Detect ==
    /\ calc.op = "detect"
    /\ ~calc.done
    /\ calc' = [calc EXCEPT !.done = TRUE, !.out = Signals(calc.x)]
    /\ event' = "other"
    /\ UNCHANGED <<started, bot_status, bot_config, telegram_accounts, open_trades,
                   trade_history, pass, dispatch, track, history_file>>

SpecDetect == InitDetect /\ [][Detect]_vars

\* ------------------------------------ the alignment counts (lines 619-626)
\* A higher timeframe's result: a series of n rows (n = 0 is the empty frame)
\* whose short and long EMA, where defined, are ema_s and ema_l on the last row.
HtfFrames == [n : 0..MaxLen, ema_s : {1, 2}, ema_l : {1, 2}]

\* The configurations that differ in the periods of the two EMAs compared.
AlignConfigs ==
    {cfg \in Configs : /\ cfg.atr_period = 1 /\ cfg.ema_entry_period = 1
                       /\ cfg.rsi_period = 1 /\ cfg.volume_avg_period = 1}

AlignInputs == [cfg : AlignConfigs, htf_data : [1..NumHtf -> HtfFrames]]

\* The loop with "at or above" and "at or below" in place of the two strict
\* comparisons.
RECURSIVE Alignment_NonStrict(_, _, _, _)
Alignment_NonStrict(cfg, htf_data, i, acc) ==
    IF i > Len(htf_data) THEN acc
    ELSE LET df_htf == htf_data[i]
             ema_s == EMA(df_htf.n, cfg.ema_short_period, df_htf.ema_s)
             ema_l == EMA(df_htf.n, cfg.ema_long_period, df_htf.ema_l)
         IN  IF df_htf.n = 0 THEN Alignment_NonStrict(cfg, htf_data, i + 1, acc)
             ELSE Alignment_NonStrict(cfg, htf_data, i + 1,
                    [long_align  |-> acc.long_align
                                       + (IF ~Lt(ema_s, ema_l) THEN 1 ELSE 0),
                     short_align |-> acc.short_align
                                       + (IF ~Gt(ema_s, ema_l) THEN 1 ELSE 0)])

\* The loop of lines 622-626 from result i on, acc holding the two counters
\* (line 621 starts them at 0): an empty frame is skipped (line 623), the
\* indicators are computed (line 624), and the last row's ema_s and ema_l are
\* compared with > (line 625) and with < (line 626).
RECURSIVE Alignment(_, _, _, _)
Alignment(cfg, htf_data, i, acc) ==
    IF i > Len(htf_data) THEN acc
    ELSE LET df_htf == htf_data[i]
             ema_s == EMA(df_htf.n, cfg.ema_short_period, df_htf.ema_s)
             ema_l == EMA(df_htf.n, cfg.ema_long_period, df_htf.ema_l)
         IN  IF df_htf.n = 0 THEN Alignment(cfg, htf_data, i + 1, acc)
             ELSE Alignment(cfg, htf_data, i + 1,
                    [long_align  |-> acc.long_align
                                       + (IF Gt(ema_s, ema_l) THEN 1 ELSE 0),
                     short_align |-> acc.short_align
                                       + (IF Lt(ema_s, ema_l) THEN 1 ELSE 0)])

InitAlign ==
    /\ started = TRUE
    /\ bot_status = [last_check |-> Never, last_error |-> NoError]
    /\ telegram_accounts = AccountIds
    /\ bot_config = [max_open_trades |-> DefaultMaxOpenTrades,
                     telegram_channels |-> DefaultChannels(telegram_accounts)]
    /\ dispatch = NoDispatch
    /\ open_trades = 0
    /\ trade_history = <<>>
    /\ pass = [p \in PassIds |-> IdlePass]
    /\ event = "other"
    /\ track = FALSE
    /\ history_file = NoFile
    /\ calc \in [op : {"align"}, x : AlignInputs, done : {FALSE}, out : {<<>>}]

\* The higher timeframes' results are counted.
Align ==
    /\ calc.op = "align"
    /\ ~calc.done
    /\ calc' = [calc EXCEPT
                  !.done = TRUE,
                  !.out = Alignment(calc.x.cfg, calc.x.htf_data, 1,
                                    [long_align |-> 0, short_align |-> 0])]
    /\ event' = "other"
    /\ UNCHANGED <<started, bot_status, bot_config, telegram_accounts, open_trades,
                   trade_history, pass, dispatch, track, history_file>>

SpecAlign == InitAlign /\ [][Align]_vars

\* -------------------------------------- process_signal's prices (lines 589-607)
\* Prices and the ATR are counted in thousandths, the two factors in tenths,
\* so the products below are in ten-thousandths; the arithmetic is exact.
PriceInputs ==
    [signal_type : {"Long", "Short"},
     entry_price : {1000, 1005, 2345},
     atr : {10, 15, 123},
     atr_stop_loss_factor : {10, 15, 20},
     atr_take_profit_factor : {10, 20, 25}]

\* f"{x:,.2f}" (lines 599 and 604-607) of x ten-thousandths: the text of x
\* rounded to the nearest hundredth, kept as the number of hundredths. A value
\* halfway between two hundredths goes to either, as its binary float lies.
Format2(x) ==
    LET q == x \div 100
        r == x % 100
    IN  IF r < 50 THEN {q} ELSE IF r > 50 THEN {q + 1} ELSE {q, q + 1}

\* A stop-loss on the wrong side of the entry price.
sl_price_WrongSide(x) ==
    IF x.signal_type = "Long"
    THEN 10 * x.entry_price + x.atr * x.atr_stop_loss_factor
    ELSE 10 * x.entry_price - x.atr * x.atr_stop_loss_factor

\* Lines 592-595.
sl_price(x) ==
    IF x.signal_type = "Long"
    THEN 10 * x.entry_price - x.atr * x.atr_stop_loss_factor
    ELSE 10 * x.entry_price + x.atr * x.atr_stop_loss_factor
tp_price(x) ==
    IF x.signal_type = "Long"
    THEN 10 * x.entry_price + x.atr * x.atr_take_profit_factor
    ELSE 10 * x.entry_price - x.atr * x.atr_stop_loss_factor

InitPrices ==
    /\ started = TRUE
    /\ bot_status = [last_check |-> Never, last_error |-> NoError]
    /\ telegram_accounts = AccountIds
    /\ bot_config = [max_open_trades |-> DefaultMaxOpenTrades,
                     telegram_channels |-> DefaultChannels(telegram_accounts)]
    /\ dispatch = NoDispatch
    /\ open_trades = 0
    /\ trade_history = <<>>
    /\ pass = [p \in PassIds |-> IdlePass]
    /\ event = "other"
    /\ track = FALSE
    /\ history_file = NoFile
    /\ calc \in [op : {"prices"}, x : PriceInputs, done : {FALSE}, out : {<<>>}]

\* Lines 589-607: the prices put in trade_entry (entry_price, sl_price) and in
\* the message (Entry, Stop Loss, Take Profit).
Prices ==
    /\ calc.op = "prices"
    /\ ~calc.done
    /\ \E e \in Format2(10 * calc.x.entry_price),
          sl \in Format2(sl_price(calc.x)),
          tp \in Format2(tp_price(calc.x)) :
         calc' = [calc EXCEPT !.done = TRUE,
                              !.out = [trade_entry |-> [entry_price |-> e, sl_price |-> sl],
                                       msg |-> [entry |-> e, stop_loss |-> sl, take_profit |-> tp]]]
    /\ event' = "other"
    /\ UNCHANGED <<started, bot_status, bot_config, telegram_accounts, open_trades,
                   trade_history, pass, dispatch, track, history_file>>

SpecPrices == InitPrices /\ [][Prices]_vars

\* ------------------------------- trade_history and trade_history.json
\* A record of the history: the instant it was made (the records of a run are
\* made at instants 1, 2, ...; those loaded at startup are older), the asset
\* and the type. entry_price and sl_price are those of Prices.
TradeEntry(time, asset, type) == [time |-> time, asset |-> asset, type |-> type]

\* list(trade_entry) (line 602): the keys of the record, an item each.
Keys == <<[key |-> "time"], [key |-> "asset"], [key |-> "type"],
          [key |-> "entry_price"], [key |-> "sl_price"]>>

\* What list(trade_history) of an earlier run left in the file: n records of
\* fake_signal, newest first.
Stored(n) == [j \in 1..n |-> TradeEntry(1 - j, "BTC/USDT", "Long")]

\* trade_history.json at startup: absent, the keys a processed signal wrote, or
\* a history that is full or one short of it.
StoredFiles ==
    {NoFile, [exists |-> TRUE, data |-> Keys]}
      \cup {[exists |-> TRUE, data |-> Stored(n)] : n \in {HistoryMaxLen - 1, HistoryMaxLen}}

\* deque(load_json(HISTORY_FILE, []), maxlen=50) (lines 60-75 and 83): the list
\* in the file, its last 50 items if it is longer; [] if the file is absent or
\* does not parse.
load_json(file) ==
    IF ~file.exists THEN <<>>
    ELSE SubSeq(file.data, Len(file.data) - Min(Len(file.data), HistoryMaxLen) + 1,
                Len(file.data))

\* save_json (lines 77-79): the data replace the file; if open() raises the
\* file is as before, if json.dump raises it is left truncated (and loads as
\* the default, like an empty list).
FlushOutcomes == {"ok", "open_failed", "write_failed"}
save_json(file, data, flush) ==
    CASE flush = "ok" -> [exists |-> TRUE, data |-> data]
      [] flush = "open_failed" -> file
      [] flush = "write_failed" -> [exists |-> TRUE, data |-> <<>>]

InitHistory ==
    /\ started = TRUE
    /\ bot_status = [last_check |-> Never, last_error |-> NoError]
    /\ telegram_accounts = AccountIds
    /\ bot_config = [max_open_trades |-> DefaultMaxOpenTrades,
                     telegram_channels |-> DefaultChannels(telegram_accounts)]
    /\ dispatch = NoDispatch
    /\ open_trades = 0
    /\ history_file \in StoredFiles
    /\ trade_history = load_json(history_file)
    /\ pass = [p \in PassIds |-> IdlePass]
    /\ event = "other"
    /\ track = FALSE
    /\ calc = [op |-> "history", n |-> 0, last |-> "none", flush |-> "ok"]

\* A synthetic signal that counts as an open trade.
RecordFake_Counted(flush) ==
    /\ calc.op = "history"
    /\ calc.n < MaxRecords
    /\ open_trades' = open_trades + 1
    /\ trade_history' = AppendLeft(trade_history, TradeEntry(calc.n + 1, "BTC/USDT", "Long"))
    /\ history_file' = save_json(history_file, trade_history', flush)
    /\ calc' = [calc EXCEPT !.n = calc.n + 1, !.last = "fake", !.flush = flush]
    /\ event' = "other"
    /\ UNCHANGED <<started, bot_status, bot_config, telegram_accounts,
                   pass, dispatch, track>>

\* fake_signal through its save (lines 565-570): a Long on BTC/USDT is put at
\* the left of the history and the whole history is written.
RecordFake(flush) ==
    /\ calc.op = "history"
    /\ calc.n < MaxRecords
    /\ trade_history' = AppendLeft(trade_history, TradeEntry(calc.n + 1, "BTC/USDT", "Long"))
    /\ history_file' = save_json(history_file, trade_history', flush)
    /\ calc' = [calc EXCEPT !.n = calc.n + 1, !.last = "fake", !.flush = flush]
    /\ event' = "other"
    /\ UNCHANGED <<started, bot_status, bot_config, telegram_accounts, open_trades,
                   pass, dispatch, track>>

\* process_signal through its save (lines 585-602), called by a pass that found
\* open_trades under the cap: the counter is incremented, the record is put at
\* the left of the history and list(trade_entry) is written.
RecordSignal(symbol, signal_type, flush) ==
    /\ calc.op = "history"
    /\ calc.n < MaxRecords
    /\ open_trades < Cap
    /\ open_trades' = open_trades + 1
    /\ trade_history' = AppendLeft(trade_history, TradeEntry(calc.n + 1, symbol, signal_type))
    /\ history_file' = save_json(history_file, Keys, flush)
    /\ calc' = [calc EXCEPT !.n = calc.n + 1, !.last = "signal", !.flush = flush]
    /\ event' = "other"
    /\ UNCHANGED <<started, bot_status, bot_config, telegram_accounts,
                   pass, dispatch, track>>

NextHistory ==
    \/ \E flush \in FlushOutcomes : RecordFake(flush)
    \/ \E symbol \in {"BTC/USDT", "ETH/USDT"}, signal_type \in {"Long", "Short"},
          flush \in FlushOutcomes : RecordSignal(symbol, signal_type, flush)

SpecHistory == InitHistory /\ [][NextHistory]_vars

\* ------------------------- binance.options['defaultType'], the shared client
\* What follows the market type of the one ccxt client (line 87-91): a scan
\* pass (scan), a /api/live_prices request (lp) and a /api/connectivity_test
\* request (ct), each suspended at its awaits. fetched holds the market types
\* the fetches of the current pass were issued with.
MarketTypes == {"future", "spot"}
Other(market) == IF market = "future" THEN "spot" ELSE "future"

\* Line 475: "spot" in bot_status["market_type"].lower().
IsSpot(market_type) == market_type \in {"Spot", "Spot (Fallback)"}
\* market.capitalize() (lines 485 and 498).
Capitalize(market) == IF market = "future" THEN "Future" ELSE "Spot"

FetchError == "Failed to fetch price data from both Futures and Spot markets."

MarketFrame ==
    /\ event' = "other"
    /\ UNCHANGED <<started, bot_config, telegram_accounts, open_trades,
                   trade_history, pass, dispatch, track, history_file>>

\* Lines 618-619 for the first symbol of a new pass: the market type is set to
\* 'future' and the higher-timeframe fetches are issued.
ScanFetchHtf ==
    /\ calc.op = "market"
    /\ calc.scan.pc = "idle"
    /\ calc' = [calc EXCEPT !.defaultType = "future",
                            !.scan = [pc |-> "htf", i |-> 1],
                            !.fetched = {"future"}]
    /\ MarketFrame /\ UNCHANGED bot_status

\* Line 628: the gather of line 619 has resumed; the entry-timeframe fetch is
\* issued with the market type the client has now.
ScanFetchEntry ==
    /\ calc.op = "market"
    /\ calc.scan.pc = "htf"
    /\ calc' = [calc EXCEPT !.scan.pc = "entry",
                            !.fetched = calc.fetched \cup {calc.defaultType}]
    /\ MarketFrame /\ UNCHANGED bot_status

\* Lines 629-647 and back to 618-619: the symbol is done; the next one sets
\* 'future' again and issues its higher-timeframe fetches, or the pass ends.
ScanNextSymbol ==
    /\ calc.op = "market"
    /\ calc.scan.pc = "entry"
    /\ calc' = IF calc.scan.i < NumSymbols
               THEN [calc EXCEPT !.defaultType = "future",
                                 !.scan = [pc |-> "htf", i |-> calc.scan.i + 1],
                                 !.fetched = calc.fetched \cup {"future"}]
               ELSE [calc EXCEPT !.scan = [pc |-> "idle", i |-> 0]]
    /\ MarketFrame /\ UNCHANGED bot_status

\* live_prices, lines 470-481: the market to try is chosen from the status and
\* set on the client; the tickers are fetched.
live_prices ==
    /\ calc.op = "market"
    /\ calc.lp.pc = "idle"
    /\ LET market_to_try == IF IsSpot(bot_status.market_type) THEN "spot" ELSE "future"
       IN  calc' = [calc EXCEPT !.defaultType = market_to_try,
                                !.lp = [pc |-> "primary", market |-> market_to_try]]
    /\ MarketFrame /\ UNCHANGED bot_status

\* Lines 484-494: with tickers the status is updated and the handler returns;
\* with none the fallback market is set on the client and fetched.
LivePricesPrimary(tickers) ==
    /\ calc.op = "market"
    /\ calc.lp.pc = "primary"
    /\ IF tickers
       THEN /\ bot_status' = [bot_status EXCEPT !.binance_connection = "Connected",
                                                !.last_error = NoError,
                                                !.market_type = Capitalize(calc.lp.market)]
            /\ calc' = [calc EXCEPT !.lp = [pc |-> "idle", market |-> "future"]]
       ELSE /\ calc' = [calc EXCEPT !.defaultType = Other(calc.lp.market),
                                    !.lp = [pc |-> "fallback", market |-> Other(calc.lp.market)]]
            /\ UNCHANGED bot_status
    /\ MarketFrame

\* Lines 497-504: the fallback gave tickers, or the handler's exception is
\* caught and recorded.
LivePricesFallback(tickers) ==
    /\ calc.op = "market"
    /\ calc.lp.pc = "fallback"
    /\ bot_status' =
         IF tickers
         THEN [bot_status EXCEPT !.binance_connection = "Connected",
                                 !.last_error = NoError,
                                 !.market_type = Capitalize(calc.lp.market) \o " (Fallback)"]
         ELSE [bot_status EXCEPT !.binance_connection = "Price Fetch Failed",
                                 !.last_error = FetchError]
    /\ calc' = [calc EXCEPT !.lp = [pc |-> "idle", market |-> "future"]]
    /\ MarketFrame

\* connectivity_test (lines 441-466): 'future' is set and a ticker fetched,
\* then 'spot' is set and a ticker fetched, then the handler returns.
connectivity_test ==
    /\ calc.op = "market"
    /\ \/ /\ calc.ct = "idle"
          /\ calc' = [calc EXCEPT !.defaultType = "future", !.ct = "future"]
       \/ /\ calc.ct = "future"
          /\ calc' = [calc EXCEPT !.defaultType = "spot", !.ct = "spot"]
       \/ /\ calc.ct = "spot"
          /\ calc' = [calc EXCEPT !.ct = "idle"]
    /\ MarketFrame /\ UNCHANGED bot_status

InitMarket ==
    /\ started = TRUE
    /\ bot_status = [last_check |-> Never, last_error |-> NoError,
                     binance_connection |-> "Connected", market_type |-> "Futures"]
    /\ telegram_accounts = AccountIds
    /\ bot_config = [max_open_trades |-> DefaultMaxOpenTrades,
                     telegram_channels |-> DefaultChannels(telegram_accounts)]
    /\ dispatch = NoDispatch
    /\ open_trades = 0
    /\ trade_history = <<>>
    /\ pass = [p \in PassIds |-> IdlePass]
    /\ event = "other"
    /\ track = FALSE
    /\ history_file = NoFile
    /\ calc = [op |-> "market", defaultType |-> "future",
               scan |-> [pc |-> "idle", i |-> 0], fetched |-> {},
               lp |-> [pc |-> "idle", market |-> "future"], ct |-> "idle"]

NextMarket ==
    \/ ScanFetchHtf
    \/ ScanFetchEntry
    \/ ScanNextSymbol
    \/ live_prices
    \/ \E tickers \in BOOLEAN : LivePricesPrimary(tickers)
    \/ \E tickers \in BOOLEAN : LivePricesFallback(tickers)
    \/ connectivity_test

SpecMarket == InitMarket /\ [][NextMarket]_vars

\* ------------------------------------------------- scan coordination claims
RunningPasses == {p \in PassIds : Running(p)}
Triggers == {"startup", "timer", "manual"}
SignalCheckErrors == {SignalCheckError(e) : e \in {DataError, OSError}}

\* C1: at most one check_signals pass is Running at any time; a trigger that
\* arrives while a pass is suspended at an await starts no second pass.
C1_OnePassAtATime == Cardinality(RunningPasses) <= 1

\* C2: with max_open_trades held constant (SpecFixedCap), open_trades never
\* exceeds max_open_trades.
C2_CapRespected == open_trades <= bot_config.max_open_trades

\* C3: a manual trigger (/api/force_check) issued while a pass is Running is a
\* no-op: it leaves bot_status.last_check as it was.
C3_ManualTriggerNoOp ==
    [][(event' = "manual" /\ RunningPasses # {})
         => bot_status'.last_check = bot_status.last_check]_vars

\* C4: once a signal processed by a pass has brought open_trades to
\* max_open_trades, that pass fetches and evaluates no later symbol, whether
\* the processing of the signal completed or raised.
C4_StopsAtCap ==
    \A p \in PassIds : pass[p].hit => pass[p].pc \notin {"htf", "entry"}

\* C5: a pass that starts while open_trades >= max_open_trades updates
\* last_check and ends at once: no symbol is fetched or evaluated, no signal is
\* recorded or dispatched.
C5_CappedPassSkips ==
    [][(event' \in Triggers /\ open_trades >= Cap)
         => /\ bot_status'.last_check \in {strftime(t) : t \in ClockReadings}
            /\ bot_status'.last_error = bot_status.last_error
            /\ UNCHANGED <<pass, open_trades, trade_history>>]_vars

\* C5 witness: a trigger has just started a pass with the cap already reached.
C5_Witness ==
    /\ event \in Triggers
    /\ open_trades >= Cap
    /\ bot_status.last_check # Never
    /\ RunningPasses = {}

\* C6: an exception raised while a symbol is fetched or evaluated is caught
\* and recorded in bot_status.last_error, and the pass goes on with the next
\* symbol of active_symbols (it ends only if that symbol was the last one).
C6_ErrorIsolated ==
    [][event' = "except"
         => /\ bot_status'.last_error \in SignalCheckErrors
            /\ \E p \in RunningPasses :
                 /\ \A q \in PassIds \ {p} : pass'[q] = pass[q]
                 /\ IF pass[p].i < NumSymbols
                    THEN pass'[p].pc = "htf" /\ pass'[p].i = pass[p].i + 1
                    ELSE pass'[p].pc = "idle"]_vars

\* C6 witness: the only pass there is has caught a data error on its first
\* symbol and is now fetching the second.
C6_Witness ==
    /\ event = "except"
    /\ bot_status.last_error = SignalCheckError(DataError)
    /\ open_trades = 0
    /\ \E p \in PassIds :
         /\ RunningPasses = {p}
         /\ pass[p].pc = "htf"
         /\ pass[p].i = NumSymbols

\* C7: a settings update that arrives while a pass is Running does not affect
\* that pass: the cap check after a processed signal (lines 636, 642) decides
\* with the max_open_trades in force when the pass started.
C7_ConfigSnapshot ==
    [][\A p \in PassIds :
         (pass[p].pc = "notify" /\ pass'[p].pc # "notify" /\ pass[p].i < NumSymbols)
           => (pass'[p].pc = "idle" <=> open_trades >= pass[p].cap0)]_vars

\* ------------------------------------------------------- dispatch claims
Settled == {"ok", "failed"}
Attempts == DOMAIN dispatch.tasks

\* C8 (as stated): send_telegram_message attempts a send to every channel
\* marked active.
C8_EveryActiveChannel ==
    dispatch.pc # "idle" => Attempts = dispatch.active_channels_config

\* C8 (amended): send_telegram_message attempts a send to every active channel
\* whose id is the id of a loaded account; a send that fails changes only its
\* own task, the others stay as they were (not cancelled, not dropped), and the
\* dispatch goes on waiting or returns, it never raises.
C8_ActiveWithAccountIsolated ==
    [][/\ dispatch'.pc # "idle" =>
            DOMAIN dispatch'.tasks = dispatch'.active_channels_config \cap telegram_accounts
       /\ dispatch.pc = "gather" =>
            /\ dispatch'.pc \in {"gather", "returned"}
            /\ DOMAIN dispatch'.tasks = Attempts
            /\ \A c \in Attempts :
                 /\ dispatch'.tasks[c] \in Settled \cup {"pending"}
                 /\ dispatch'.tasks[c] # dispatch.tasks[c] =>
                      \A d \in Attempts \ {c} : dispatch'.tasks[d] = dispatch.tasks[d]]_vars

\* C8 witness: a dispatch with an active channel that has no account has
\* returned after one of its sends failed and a later one was delivered.
C8_Witness ==
    /\ dispatch.pc = "returned"
    /\ dispatch.active_channels_config \ telegram_accounts # {}
    /\ \E c, d \in Attempts :
         c < d /\ dispatch.tasks[c] = "failed" /\ dispatch.tasks[d] = "ok"

\* C9: send_telegram_message returns only after every send it started has
\* settled: none is pending when it returns.
C9_ReturnsAfterAllSettled ==
    dispatch.pc = "returned" => \A c \in Attempts : dispatch.tasks[c] \in Settled

\* C9 witness: a dispatch of three or more sends has returned, with a failed
\* send among them.
C9_Witness ==
    /\ dispatch.pc = "returned"
    /\ Cardinality(Attempts) >= 3
    /\ \E c \in Attempts : dispatch.tasks[c] = "failed"

\* C10: when a dispatch has returned, every channel whose send failed is
\* reported: its failure is in what the dispatch leaves behind
\* (send_telegram_message returns None, bot_status.last_error is the only record).
C10_EveryFailureReported ==
    dispatch.pc = "returned" =>
        \A c \in Attempts :
            dispatch.tasks[c] = "failed" => bot_status.last_error = FailedToSend(c)

\* ------------------------------------------------------ detection claims
Detected == calc.op = "detect" /\ calc.done
LastRow == calculate_indicators(calc.x.n, calc.x)
PrevRow == calculate_indicators(calc.x.n - 1, calc.x)

\* C11: check_signals emits Long exactly when long_count >= 2, prev.rsi <
\* rsi_oversold, last.rsi >= rsi_oversold, last.volume > volume_factor x
\* last.volume_avg and last.close > last.entry_ema; otherwise it emits Short
\* exactly when short_count >= 2, prev.rsi > rsi_overbought, last.rsi <=
\* rsi_overbought, the same volume condition and last.close < last.entry_ema
\* (an undefined indicator satisfies no condition).
C11_EntryPredicates ==
    (Detected /\ calc.x.n >= 2) =>
        LET x == calc.x
            volume == /\ LastRow.vol_avg # NaN
                      /\ 10 * LastRow.v > x.cfg.volume_factor * LastRow.vol_avg
            long == /\ long_align(x) >= 2
                    /\ Lt(PrevRow.rsi, x.cfg.rsi_oversold)
                    /\ LastRow.rsi # NaN /\ LastRow.rsi >= x.cfg.rsi_oversold
                    /\ volume
                    /\ Gt(LastRow.c, LastRow.ema_e)
            short == /\ short_align(x) >= 2
                     /\ Gt(PrevRow.rsi, x.cfg.rsi_overbought)
                     /\ LastRow.rsi # NaN /\ LastRow.rsi <= x.cfg.rsi_overbought
                     /\ volume
                     /\ Lt(LastRow.c, LastRow.ema_e)
        IN  /\ calc.out.signals = <<"Long">> <=> long
            /\ calc.out.signals = <<"Short">> <=> (~long /\ short)

\* C12: one symbol's evaluation produces at most one signal, Long or Short and
\* never both, and it is Long whenever the Long rule holds, whatever the Short
\* rule gives.
C12_AtMostOneSignal ==
    Detected =>
        /\ Len(calc.out.signals) <= 1
        /\ \A j \in 1..Len(calc.out.signals) : calc.out.signals[j] \in {"Long", "Short"}
        /\ (calc.x.n >= 2 /\ LongEntry(calc.x, PrevRow, LastRow)) => calc.out.signals = <<"Long">>

\* C12 witness: a Long signal was produced for a symbol that also has a higher
\* timeframe aligned short.
C12_Witness ==
    /\ Detected
    /\ calc.out.signals = <<"Long">>
    /\ short_align(calc.x) = 1

\* C18: from an entry series shorter than the largest configured indicator
\* period no Long or Short signal is emitted.
C18_ShortSeriesNoSignal ==
    (Detected /\ calc.x.n < LargestPeriod(calc.x.cfg)) => calc.out.signals = <<>>

\* ---------------------------------------------------------- price claims
Priced == calc.op = "prices" /\ calc.done

\* C13 (as stated): the stop-loss stored in the trade record is
\* entry - atr*atr_stop_loss_factor for a Long and entry +
\* atr*atr_stop_loss_factor for a Short.
C13_StopLossExact ==
    Priced =>
        100 * calc.out.trade_entry.sl_price =
            IF calc.x.signal_type = "Long"
            THEN 10 * calc.x.entry_price - calc.x.atr * calc.x.atr_stop_loss_factor
            ELSE 10 * calc.x.entry_price + calc.x.atr * calc.x.atr_stop_loss_factor

\* C13 (amended): the stop-loss stored in the trade record is the text of
\* entry - atr*atr_stop_loss_factor (Long), entry + atr*atr_stop_loss_factor
\* (Short), rounded to two decimals: it is within half a hundredth of that value.
C13_StopLossRounded ==
    Priced =>
        LET exact == IF calc.x.signal_type = "Long"
                     THEN 10 * calc.x.entry_price - calc.x.atr * calc.x.atr_stop_loss_factor
                     ELSE 10 * calc.x.entry_price + calc.x.atr * calc.x.atr_stop_loss_factor
            stored == 100 * calc.out.trade_entry.sl_price
        IN  stored - exact <= 50 /\ exact - stored <= 50

\* C13 witness: a Short was processed whose stop-loss is not a whole number of
\* hundredths, and the record holds it rounded up.
C13_Witness ==
    /\ Priced
    /\ calc.x.signal_type = "Short"
    /\ 100 * calc.out.trade_entry.sl_price
         > 10 * calc.x.entry_price + calc.x.atr * calc.x.atr_stop_loss_factor

\* C14: the take-profit put in the notification is entry +
\* atr*atr_take_profit_factor for a Long and entry - atr*atr_take_profit_factor
\* for a Short (as the message prints it, to two decimals), whatever the two
\* factors are.
C14_TakeProfit ==
    Priced =>
        LET exact == IF calc.x.signal_type = "Long"
                     THEN 10 * calc.x.entry_price + calc.x.atr * calc.x.atr_take_profit_factor
                     ELSE 10 * calc.x.entry_price - calc.x.atr * calc.x.atr_take_profit_factor
            shown == 100 * calc.out.msg.take_profit
        IN  shown - exact <= 50 /\ exact - shown <= 50

\* -------------------------------------------------------- history claims
\* C15: trade_history holds at most 50 items, and every record added goes to
\* the front with the others behind it in the order they had; when the
\* history was full, the one dropped is the last, the oldest.
C15_BoundedNewestFirst ==
    [][trade_history' # trade_history =>
         /\ Len(trade_history') <= HistoryMaxLen
         /\ Len(trade_history') = Min(Len(trade_history) + 1, HistoryMaxLen)
         /\ "time" \in DOMAIN trade_history'[1]
         /\ \A j \in 2..Len(trade_history') :
              /\ trade_history'[j] = trade_history[j - 1]
              /\ "time" \in DOMAIN trade_history'[j] =>
                   trade_history'[1].time > trade_history'[j].time]_vars

\* C15 witness: records were added to a full history and as many of the oldest
\* ones are gone.
C15_Witness ==
    /\ calc.op = "history"
    /\ calc.n >= 2
    /\ Len(trade_history) = HistoryMaxLen
    /\ trade_history[HistoryMaxLen].time = calc.n + 1 - HistoryMaxLen

\* C16: after process_signal has recorded a signal and written the file,
\* loading the file gives the in-memory trade_history: the same records in
\* the same order.
C16_FileEqualsHistory ==
    (calc.op = "history" /\ calc.last = "signal" /\ calc.flush = "ok")
        => load_json(history_file) = trade_history

\* ------------------------------------------------ failure and frame claims
\* C17: when the history flush fails while a signal is recorded (the step that
\* increments open_trades and ends in the except clause), the new record is in
\* trade_history, open_trades stays incremented, the notification of the
\* signal is dispatched, and the pass goes on.
C17_FlushFailureNotFatal ==
    [][(event' = "except" /\ open_trades' = open_trades + 1) =>
         /\ Len(trade_history') >= 1
         /\ \A j \in 2..Len(trade_history') : trade_history'[j] = trade_history[j - 1]
         /\ \E p \in PassIds :
              /\ pass[p].pc = "entry"
              /\ pass'[p].pc = "notify"
              /\ DOMAIN pass'[p].tasks # {}]_vars

\* C19: bot_status and open_trades change only inside a Running pass: a step
\* taken while no pass is Running, other than the start of a pass, leaves them
\* unchanged.
C19_ChangedOnlyInPass ==
    [][(RunningPasses = {} /\ event' \notin Triggers)
         => UNCHANGED <<bot_status, open_trades>>]_vars

\* C20: a send_telegram_message call made while no channel is marked active
\* returns at once: it starts no send and leaves bot_status, trade_history and
\* open_trades unchanged.
C20_NoActiveChannelNoOp ==
    [][(dispatch.pc = "idle" /\ dispatch'.pc # "idle" /\ ActiveChannels = {}) =>
         /\ dispatch'.pc = "returned"
         /\ dispatch'.tasks = <<>>
         /\ UNCHANGED <<bot_status, trade_history, open_trades>>]_vars

\* C20 witness: a dispatch made with accounts loaded and no channel active has
\* returned.
C20_Witness ==
    /\ dispatch.pc = "returned"
    /\ dispatch.active_channels_config = {}
    /\ telegram_accounts # {}
    /\ ActiveChannels = {}

\* -------------------------------------------------------- startup claims
\* C21: a failed connection attempt at startup does not end startup:
\* binance_connection becomes "Failed" and last_error holds the cause, and the
\* step that follows starts the scheduler and the initial pass.
C21_StartupSurvives ==
    [][/\ event' = "connect_failed" =>
            /\ bot_status'.binance_connection = "Failed"
            /\ bot_status'.last_error = ConnectError
            /\ bot_status'.last_check = bot_status.last_check
       /\ (~started /\ bot_status.binance_connection = "Failed") =>
            /\ started'
            /\ event' = "startup"
            /\ bot_status'.last_check # Never
            /\ bot_status'.binance_connection = "Failed"
            /\ \E p \in PassIds : pass'[p].pc = "htf"]_vars

\* C21 witness: the connection failed and the server is up, its initial pass
\* just started.
C21_Witness ==
    /\ started
    /\ event = "startup"
    /\ "binance_connection" \in DOMAIN bot_status
    /\ bot_status.binance_connection = "Failed"
    /\ bot_status.last_error = ConnectError
    /\ \E p \in PassIds : pass[p].pc = "htf"

\* ---------------------------------------------------- fake_signal claims
\* C22: fake_signal puts exactly one Long record at the front of
\* trade_history, the records it had behind it, and leaves open_trades and
\* last_check unchanged.
C22_FakeSignalFrame ==
    [][(calc.op = "history" /\ calc'.last = "fake" /\ calc'.n = calc.n + 1) =>
         /\ Len(trade_history') = Min(Len(trade_history) + 1, HistoryMaxLen)
         /\ trade_history'[1].type = "Long"
         /\ trade_history'[1].time = calc'.n
         /\ \A j \in 2..Len(trade_history') : trade_history'[j] = trade_history[j - 1]
         /\ open_trades' = open_trades
         /\ bot_status'.last_check = bot_status.last_check]_vars

\* C22 witness: a synthetic signal was recorded after a detected one, with the
\* counter still at one.
C22_Witness ==
    /\ calc.op = "history"
    /\ calc.last = "fake"
    /\ calc.n >= 2
    /\ open_trades = 1
    /\ trade_history[1].type = "Long"
    /\ trade_history[1].asset = "BTC/USDT"

\* ---------------------------------------------------- market type claims
\* C23: every candle fetch a scan pass issues is made with the client's market
\* type set to 'future'.
C23_AlwaysFuture ==
    calc.op = "market" => calc.fetched \subseteq {"future"}

\* ------------------------------------------------------ lifecycle claims
\* C24: open_trades never decreases, and once it has reached max_open_trades
\* (held constant) no further signal is recorded or notified: the counter and
\* the history stay as they are and no pass begins a notification.
C24_NothingAfterCap ==
    [][/\ open_trades' >= open_trades
       /\ open_trades >= Cap =>
            /\ UNCHANGED <<open_trades, trade_history>>
            /\ \A p \in PassIds : pass'[p].pc = "notify" => pass[p].pc = "notify"]_vars

\* C25: a pass takes the symbols in list order, one after the other from the
\* first, and for each symbol the higher-timeframe fetches are complete before
\* the entry rule is evaluated (a failed fetch sends the pass to the next
\* symbol); a record is made only by a pass evaluating
\* the entry rule, for the symbol it is at, so the symbols that got a signal
\* precede those the pass has not reached.
C25_ListOrder ==
    [][/\ \A p \in PassIds :
            LET a == pass[p]
                b == pass'[p]
            IN  \/ b = a
                \/ a.pc = "idle" /\ b.pc = "htf" /\ b.i = 1
                \/ a.pc = "htf" /\ b.pc = "entry" /\ b.i = a.i
                \/ a.pc = "entry" /\ b.pc = "notify" /\ b.i = a.i
                \/ a.pc = "notify" /\ b.pc = "notify" /\ b.i = a.i
                \/ a.pc \in RunningPcs /\ b.pc = "htf" /\ b.i = a.i + 1
                                        /\ b.i <= NumSymbols
                \/ a.pc \in RunningPcs /\ b.pc = "idle"
       /\ trade_history' # trade_history =>
            \E p \in PassIds :
                /\ pass[p].pc = "entry"
                /\ pass'[p] # pass[p]
                /\ trade_history'[1].asset = pass[p].i]_vars

\* C25 witness: a pass that recorded a signal for the first symbol is now
\* fetching the higher timeframes of the second.
C25_Witness ==
    /\ open_trades = 1
    /\ Len(trade_history) = 1
    /\ trade_history[1].asset = 1
    /\ \E p \in PassIds : RunningPasses = {p} /\ pass[p].pc = "htf" /\ pass[p].i = 2

\* C26: every started pass eventually completes and returns to Idle, whether
\* it ends normally, by the cap, or after per-symbol errors.
C26_PassCompletes ==
    \A p \in PassIds : Running(p) ~> ~Running(p)

\* C26 witness: a pass has ended right after a caught error on its last
\* symbol, and no pass is left running.
C26_Witness ==
    /\ started
    /\ event = "except"
    /\ RunningPasses = {}
    /\ bot_status.last_error \in SignalCheckErrors

\* Claim C27: for any higher-timeframe results, long_align is the number of
\* timeframes whose series is not empty and whose last short EMA and long EMA
\* are both defined with the short one strictly above, short_align the number
\* with the short one strictly below; so a timeframe counts for at most one of
\* the two and their sum is at most the number of higher timeframes.
Aligned == calc.op = "align" /\ calc.done
LastEmaS(tf) ==
    IF calc.x.htf_data[tf].n >= calc.x.cfg.ema_short_period
    THEN calc.x.htf_data[tf].ema_s ELSE NaN
LastEmaL(tf) ==
    IF calc.x.htf_data[tf].n >= calc.x.cfg.ema_long_period
    THEN calc.x.htf_data[tf].ema_l ELSE NaN
Usable(tf) ==
    /\ calc.x.htf_data[tf].n > 0
    /\ LastEmaS(tf) # NaN
    /\ LastEmaL(tf) # NaN
Bullish == {tf \in 1..NumHtf : Usable(tf) /\ LastEmaS(tf) > LastEmaL(tf)}
Bearish == {tf \in 1..NumHtf : Usable(tf) /\ LastEmaS(tf) < LastEmaL(tf)}
C27_AlignmentCounts ==
    Aligned =>
        /\ calc.out.long_align = Cardinality(Bullish)
        /\ calc.out.short_align = Cardinality(Bearish)
        /\ calc.out.long_align + calc.out.short_align <= NumHtf

\* Two of the three timeframes are bullish, the third has equal EMAs, an empty
\* series or an undefined long EMA: the counts are 2 and 0.
C27_Witness ==
    /\ Aligned
    /\ Cardinality(Bullish) = 2
    /\ \E tf \in 1..NumHtf :
          /\ tf \notin Bullish
          /\ \/ calc.x.htf_data[tf].n = 0
             \/ Usable(tf) /\ LastEmaS(tf) = LastEmaL(tf)
             \/ calc.x.htf_data[tf].n > 0 /\ LastEmaL(tf) = NaN
    /\ calc.out.long_align = 2
    /\ calc.out.short_align = 0

\* Claim C28: whenever the evaluation of a symbol emits a signal, the values it
\* decided on and the one it hands to process_signal are defined: the RSI of
\* the last two rows, the volume average and the entry EMA of the last row,
\* and the ATR of the last row (from which the stop-loss and the target are
\* computed), for every configuration of the periods and every series length.
C28_NoUndefinedValueUsed ==
    (Detected /\ calc.out.signals # <<>>) =>
        /\ LastRow.rsi # NaN
        /\ PrevRow.rsi # NaN
        /\ LastRow.vol_avg # NaN
        /\ LastRow.ema_e # NaN
        /\ LastRow.atr # NaN

====
